---- MODULE Spec2Model ----
(***************************************************************************)
(* HTTP-to-BLE proxy (src/main.py, src/macedition.py).                     *)
(*                                                                         *)
(* Every HTTP request is an asyncio task running handle_request; the task  *)
(* calls send_command_and_get_response, which connects to the peripheral,  *)
(* subscribes notif_handler, writes the command in chunks, waits for the   *)
(* completion event and assembles the response.  The two source files are  *)
(* two editions of the same program; the variable `variant` says which one *)
(* is running.  A task that has answered is released and its slot serves   *)
(* the next request, so a behaviour is an unbounded run of requests.       *)
(***************************************************************************)
EXTENDS Integers, Sequences, FiniteSets, TLC

VARIABLES
    variant,            \* "main" (src/main.py) or "mac" (src/macedition.py)
    serial,             \* environment: clients send requests one at a time
    budget,             \* environment: notifications the peripheral has left
    now,                \* int(time.time()*1000) of the latest request
    connected_address,  \* global: "none" or "addr"
    CMD_CHAR,           \* global: "none" or "uuid"
    RESP_CHAR,          \* global: "none" or "uuid"
    pc,                 \* per request: the await its task is suspended at
    req_id,             \* per request: the millisecond value in its id
    command_bytes,      \* per request: the encoded Command Envelope
    attempt,            \* per request: safe_connect's attempt (0-based)
    chunk,              \* per request: chunks of the command acknowledged
    acked,              \* per call: the bytes acknowledged on the wire
    fragments,          \* per call: dict rid -> dict seq -> payload
    finished,           \* per call: the asyncio.Event
    raised,             \* per call: an exception left notif_handler
    seen,               \* per call: the fragments of its id handed to it
    malformed,          \* per call: undecodable bytes were handed to it
    junk,               \* per call: any other notification was handed to it
    stale,              \* per call: an earlier call stored under its id
    connected,          \* per call: the BleakClient holds a connection
    subscribed,         \* per call: notif_handler is registered
    outcome,            \* per call: how the call ended ("none" while running)
    result,             \* per call: the bytes it returned
    response,           \* per request: the answer of handle_request
    fn_b, fn_n,         \* chunk_bytes on its own: the arguments
    fn_out, fn_pc       \*   its chunks, and whether it has run

vars == <<variant, serial, budget, now, connected_address, CMD_CHAR,
          RESP_CHAR, pc, req_id, command_bytes, attempt, chunk, acked,
          fragments, finished, raised, seen, malformed, junk, stale,
          connected, subscribed, outcome, result, response, fn_b, fn_n,
          fn_out, fn_pc>>

sysvars == <<variant, serial, budget, now, connected_address, CMD_CHAR,
             RESP_CHAR, pc, req_id, command_bytes, attempt, chunk, acked,
             fragments, finished, raised, seen, malformed, junk, stale,
             connected, subscribed, outcome, result, response>>

fnvars == <<fn_b, fn_n, fn_out, fn_pc>>

----------------------------------------------------------------------------
(* Bounds and program constants *)

NReq == 2               \* request tasks alive at once
MaxNotifs == 2          \* notifications the peripheral sends to serial clients
ConcNotifs == 1         \* notifications it sends to concurrent clients
MaxClock == 2           \* distinct millisecond values of the clock
MaxBufLen == 5          \* longest buffer handed to chunk_bytes on its own
MaxChunkSize == 4       \* largest chunk size handed to chunk_bytes on its own

BLE_CHUNK_SIZE == 120
RETRIES == 3

Requests == 1..NReq
Variants == {"main", "mac"}

Min(a, b) == IF a < b THEN a ELSE b

RECURSIVE Concat(_)
Concat(ss) == IF ss = <<>> THEN <<>> ELSE Head(ss) \o Concat(Tail(ss))

----------------------------------------------------------------------------
(* chunk_bytes *)

\* b[lo:hi - 1]: the slice loses its last byte
SliceShort(b, lo, hi) == SubSeq(b, lo + 1, Min(hi - 1, Len(b)))

\* Python's b[lo:hi] for 0 <= lo <= hi
Slice(b, lo, hi) == SubSeq(b, lo + 1, Min(hi, Len(b)))

\* range(0, len(b) - n + 1, n): a short last chunk is not yielded
RECURSIVE ChunkFromWhole(_, _, _)
ChunkFromWhole(b, n, i) ==
    IF i + n > Len(b) THEN <<>>
    ELSE <<SubSeq(b, i + 1, i + n)>> \o ChunkFromWhole(b, n, i + n)

\* the generator's loop: for i in range(0, len(b), n): yield b[i:i + n]
RECURSIVE ChunkFrom(_, _, _)
ChunkFrom(b, n, i) ==
    IF i >= Len(b) THEN <<>>
    ELSE <<Slice(b, i, i + n)>> \o ChunkFrom(b, n, i + n)

chunk_bytes(b, n) == ChunkFrom(b, n, 0)

----------------------------------------------------------------------------
(* Text and JSON values.  A str is the sequence of its character codes;    *)
(* a JSON value carries its type, so that int(), bool() and b64decode()    *)
(* act on it as Python does.                                               *)

JInt(n)  == [t |-> "int",  n |-> n, s |-> <<>>]
JStr(s)  == [t |-> "str",  n |-> 0, s |-> s]
JBool(b) == [t |-> "bool", n |-> IF b THEN 1 ELSE 0, s |-> <<>>]
JNull    == [t |-> "null", n |-> 0, s |-> <<>>]
Absent   == [t |-> "absent", n |-> 0, s |-> <<>>]   \* the key is not there
None     == JNull

IsDigit(c) == c >= 48 /\ c <= 57

\* str(n) for n >= 0
RECURSIVE Digits(_)
Digits(n) ==
    IF n < 10 THEN <<48 + n>> ELSE Digits(n \div 10) \o <<48 + (n % 10)>>

RECURSIVE DigitsValue(_, _)
DigitsValue(s, acc) ==
    IF s = <<>> THEN acc ELSE DigitsValue(Tail(s), 10 * acc + (Head(s) - 48))

\* int(v): [ok, n]; ValueError / TypeError are ok = FALSE
PyInt(v) ==
    CASE v.t = "int"  -> [ok |-> TRUE, n |-> v.n]
      [] v.t = "bool" -> [ok |-> TRUE, n |-> v.n]
      [] v.t = "str"  ->
            IF v.s # <<>> /\ \A i \in 1..Len(v.s) : IsDigit(v.s[i])
            THEN [ok |-> TRUE, n |-> DigitsValue(v.s, 0)]
            ELSE [ok |-> FALSE, n |-> 0]
      [] OTHER        -> [ok |-> FALSE, n |-> 0]

\* bool(v), also the truth value tested by `if payload_b64`
PyBool(v) ==
    CASE v.t = "int"  -> v.n # 0
      [] v.t = "bool" -> v.n # 0
      [] v.t = "str"  -> v.s # <<>>
      [] OTHER        -> FALSE

\* dict.get(key, default) on a decoded JSON object
Get(msg, key, default) == IF msg[key].t = "absent" THEN default ELSE msg[key]

----------------------------------------------------------------------------
(* base64 *)

B64Pad == 61    \* "="

\* the value of a base64 character, -1 outside the alphabet
B64Val(c) ==
    IF c >= 65 /\ c <= 90 THEN c - 65
    ELSE IF c >= 97 /\ c <= 122 THEN c - 71
    ELSE IF c >= 48 /\ c <= 57 THEN c + 4
    ELSE IF c = 43 THEN 62
    ELSE IF c = 47 THEN 63
    ELSE -1

B64Char(v) ==
    IF v < 26 THEN v + 65
    ELSE IF v < 52 THEN v + 71
    ELSE IF v < 62 THEN v - 4
    ELSE IF v = 62 THEN 43 ELSE 47

\* base64.b64encode(b)
RECURSIVE B64Encode(_)
B64Encode(b) ==
    IF b = <<>> THEN <<>>
    ELSE IF Len(b) = 1 THEN
        <<B64Char(b[1] \div 4), B64Char((b[1] % 4) * 16), B64Pad, B64Pad>>
    ELSE IF Len(b) = 2 THEN
        <<B64Char(b[1] \div 4),
          B64Char((b[1] % 4) * 16 + b[2] \div 16),
          B64Char((b[2] % 16) * 4), B64Pad>>
    ELSE
        <<B64Char(b[1] \div 4),
          B64Char((b[1] % 4) * 16 + b[2] \div 16),
          B64Char((b[2] % 16) * 4 + b[3] \div 64),
          B64Char(b[3] % 64)>> \o B64Encode(SubSeq(b, 4, Len(b)))

\* the quads of a padded base64 text
RECURSIVE B64Quads(_)
B64Quads(s) ==
    IF s = <<>> THEN <<>>
    ELSE LET a == B64Val(s[1])
             b == B64Val(s[2])
             c == B64Val(s[3])
             d == B64Val(s[4])
             rest == B64Quads(SubSeq(s, 5, Len(s)))
         IN  IF s[3] = B64Pad THEN <<a * 4 + b \div 16>>
             ELSE IF s[4] = B64Pad
                  THEN <<a * 4 + b \div 16, (b % 16) * 16 + c \div 4>>
             ELSE <<a * 4 + b \div 16, (b % 16) * 16 + c \div 4,
                    (c % 4) * 64 + d>> \o rest

\* base64.b64decode(v): [ok, b]; binascii.Error / TypeError are ok = FALSE.
\* Characters outside the alphabet are discarded (validate=False), then the
\* padding must be right.
B64Decode(v) ==
    IF v.t # "str" THEN [ok |-> FALSE, b |-> <<>>]
    ELSE LET s == SelectSeq(v.s, LAMBDA c : B64Val(c) >= 0 \/ c = B64Pad)
         IN  IF Len(s) % 4 # 0 THEN [ok |-> FALSE, b |-> <<>>]
             ELSE [ok |-> TRUE, b |-> B64Quads(s)]

----------------------------------------------------------------------------
(* The Command Envelope built by handle_request *)

\* f"req-{int(time.time()*1000)}"
ReqIdStr(ms) == <<114, 101, 113, 45>> \o Digits(ms)

\* json.dumps(cmd).encode("utf-8") for cmd = {"id", "method", "url",
\* "headers"} and, for a non-empty body, "body_b64"
CmdHead == <<123,34,105,100,34,58,32,34>>                  \* {"id": "
CmdMid  == <<34,44,32,34,109,101,116,104,111,100,34,58,32,34,71,69,84,34,
             44,32,34,117,114,108,34,58,32,34,104,116,116,112,58,47,47,49,
             50,55,46,48,46,48,46,49,58,56,48,56,48,47,34,44,32,34,104,101,
             97,100,101,114,115,34,58,32,123,125>>
    \* ", "method": "GET", "url": "http://127.0.0.1:8080/", "headers": {}
CmdBody == <<44,32,34,98,111,100,121,95,98,54,52,34,58,32,34>>
    \* , "body_b64": "

cmd_bytes(ms, b) ==
    CmdHead \o ReqIdStr(ms) \o CmdMid \o
    (IF b # <<>> THEN CmdBody \o B64Encode(b) \o <<34>> ELSE <<>>) \o <<125>>

\* json.loads(command_bytes.decode("utf-8"))["id"]: the string that follows
\* the first key
RECURSIVE UntilQuote(_)
UntilQuote(s) ==
    IF s = <<>> \/ Head(s) = 34 THEN <<>>
    ELSE <<Head(s)>> \o UntilQuote(Tail(s))

CommandId(bytes) ==
    JStr(UntilQuote(SubSeq(bytes, Len(CmdHead) + 1, Len(bytes))))

\* the HTTP bodies of the model: none, and one that needs a second chunk
LongBody == [i \in 1..36 |-> 97 + (i % 26)]
Bodies == {<<>>, LongBody}

----------------------------------------------------------------------------
(* Notifications on the wire.  utf8/json/obj say how far the bytes decode; *)
(* for a JSON object the four keys hold a JSON value or Absent.            *)

WireMsg(id, seq, payload_b64, final) ==
    [utf8 |-> TRUE, json |-> TRUE, obj |-> TRUE,
     id |-> id, seq |-> seq, payload_b64 |-> payload_b64, final |-> final]

Undecodable(u, j) ==
    [utf8 |-> u, json |-> j, obj |-> FALSE,
     id |-> Absent, seq |-> Absent, payload_b64 |-> Absent, final |-> Absent]

NonUtf8   == Undecodable(FALSE, FALSE)    \* b"\xff\xfe"
NonJson   == Undecodable(TRUE, FALSE)     \* b"hello"
NonObject == Undecodable(TRUE, TRUE)      \* b"[1, 2]"

\* the payload the peripheral puts at position seq: "A", "B", "C", ...
PayloadAt(seq) == <<65 + seq>>

Fragment(ms, seq, final) ==
    WireMsg(JStr(ReqIdStr(ms)), JInt(seq),
            JStr(B64Encode(PayloadAt(seq))), JBool(final))

NoId(ms)    == WireMsg(Absent, JInt(0),
                       JStr(B64Encode(PayloadAt(0))), JBool(TRUE))
NoSeq(ms)   == WireMsg(JStr(ReqIdStr(ms)), Absent,
                       JStr(B64Encode(PayloadAt(2))), JBool(FALSE))
BadSeq(ms)  == WireMsg(JStr(ReqIdStr(ms)), JStr(<<120>>),
                       JStr(B64Encode(PayloadAt(0))), JBool(TRUE))
NoFinal(ms) == WireMsg(JStr(ReqIdStr(ms)), JInt(0),
                       JStr(B64Encode(PayloadAt(0))), Absent)

\* a whole response in one fragment: the Response Envelope {"status": 404}
EnvelopeBytes == <<123,34,115,116,97,116,117,115,34,58,32,52,48,52,125>>

Envelope(ms) ==
    WireMsg(JStr(ReqIdStr(ms)), JInt(0),
            JStr(B64Encode(EnvelopeBytes)), JBool(TRUE))

\* and one that leaves every field to its default: {}
ObjectBytes == <<123, 125>>

EmptyEnvelope(ms) ==
    WireMsg(JStr(ReqIdStr(ms)), JInt(0),
            JStr(B64Encode(ObjectBytes)), JBool(TRUE))

\* what the peripheral may send while request ms is served: fragments of
\* its id, a final fragment of another id, undecodable bytes, and objects
\* with a field missing or malformed
WireMessages(ms) ==
    {Fragment(ms, 0, FALSE), Fragment(ms, 1, FALSE),
     Fragment(ms, 1, TRUE), Fragment(ms, 2, TRUE), Envelope(ms),
     EmptyEnvelope(ms)}
    \cup {Fragment((ms % MaxClock) + 1, 0, TRUE)}
    \cup {NonUtf8, NonJson, NonObject}
    \cup {NoId(ms), NoSeq(ms), BadSeq(ms), NoFinal(ms)}

Wire == UNION {WireMessages(ms) : ms \in 1..MaxClock}

----------------------------------------------------------------------------
(* notif_handler *)

\* the exception the body of the try block raises on data, "" for none
ParseError(data) ==
    IF ~data.utf8 THEN "UnicodeDecodeError"
    ELSE IF ~data.json THEN "JSONDecodeError"
    ELSE IF ~data.obj THEN "AttributeError"
    ELSE IF ~PyInt(Get(data, "seq", JInt(0))).ok THEN "ValueError"
    ELSE LET p == Get(data, "payload_b64", JStr(<<>>))
         IN  IF PyBool(p) /\ ~B64Decode(p).ok THEN "binascii.Error" ELSE ""

\* except ValueError: the decode errors, but not the AttributeError of
\* msg.get on a JSON value that is not an object
CaughtValueError(e) == e \in {"UnicodeDecodeError", "JSONDecodeError",
                              "ValueError", "binascii.Error"}

\* except Exception: every one of them
Caught(e) == e \in {"UnicodeDecodeError", "JSONDecodeError", "AttributeError",
                    "ValueError", "binascii.Error"}

EmptyDict == <<>>

DictGet(d, k, default) == IF k \in DOMAIN d THEN d[k] ELSE default

DictSet(d, k, v) == [x \in (DOMAIN d) \cup {k} |-> IF x = k THEN v ELSE d[x]]

\* fragments.setdefault(rid, {})[seq] = payload
Store(frags, rid, seq, payload) ==
    DictSet(frags, rid, DictSet(DictGet(frags, rid, EmptyDict), seq, payload))

\* the fragments dict after the handler has run on data
HandlerFragments(frags, data) ==
    IF ParseError(data) # "" THEN frags
    ELSE LET p == Get(data, "payload_b64", JStr(<<>>))
         IN  Store(frags,
                   Get(data, "id", None),
                   PyInt(Get(data, "seq", JInt(0))).n,
                   IF PyBool(p) THEN B64Decode(p).b ELSE <<>>)

\* whether the handler calls finished.set() on data
HandlerSetsFinished(data) ==
    ParseError(data) = "" /\ PyBool(Get(data, "final", JBool(FALSE)))

----------------------------------------------------------------------------
(* Assembly: b"".join(parts[i] for i in sorted(parts.keys())) *)

SetMin(S) == CHOOSE x \in S : \A y \in S : x <= y

RECURSIVE Sorted(_)
Sorted(S) == IF S = {} THEN <<>>
             ELSE <<SetMin(S)>> \o Sorted(S \ {SetMin(S)})

Join(parts, keys) == Concat([i \in 1..Len(keys) |-> parts[keys[i]]])

Assemble(frags, rid) ==
    LET parts == DictGet(frags, rid, EmptyDict)
    IN  Join(parts, Sorted(DOMAIN parts))

----------------------------------------------------------------------------
(* The server: one asyncio task per HTTP request *)

\* no answer yet
NoResponse == [status |-> 0, text |-> <<>>, body |-> <<>>, exc |-> ""]

\* exception e leaves handle_request: aiohttp answers 500 in its place
Unhandled(e) == [status |-> 500, text |-> <<>>, body |-> <<>>, exc |-> e]

\* what detect_characteristics raises: BleakError when no connection is made
\* (always so for the address None), RuntimeError when the device shows no
\* usable service
DetectError(at) == IF at = "detect_none" THEN "BleakError" ELSE "RuntimeError"

CallPcs == {"connect", "subscribe", "write", "wait", "unsub", "disc"}

\* the for loop is left after its first chunk
NumChunksOne(t) == Min(1, Len(command_bytes[t]))

NumChunks(t) == Len(chunk_bytes(command_bytes[t], BLE_CHUNK_SIZE))

\* the chunks are written last first
ChunkAtReversed(t) ==
    LET cs == chunk_bytes(command_bytes[t], BLE_CHUNK_SIZE)
    IN  cs[Len(cs) - chunk[t]]

\* the chunk the for loop hands to write_gatt_char next
ChunkAt(t) == chunk_bytes(command_bytes[t], BLE_CHUNK_SIZE)[chunk[t] + 1]

\* The state after the module is loaded, in one of two environments: HTTP
\* clients that send their requests one after the other (s) to a peripheral
\* that sends up to MaxNotifs notifications, or clients that send them
\* concurrently to a peripheral that sends up to ConcNotifs.
SysInit(s) ==
    /\ variant \in Variants
    /\ serial = s
    /\ budget = IF s THEN MaxNotifs ELSE ConcNotifs
    /\ now = 1
    /\ connected_address = "none"
    /\ CMD_CHAR = "none"
    /\ RESP_CHAR = "none"
    /\ pc = [t \in Requests |-> "idle"]
    /\ req_id = [t \in Requests |-> 0]
    /\ command_bytes = [t \in Requests |-> <<>>]
    /\ attempt = [t \in Requests |-> 0]
    /\ chunk = [t \in Requests |-> 0]
    /\ acked = [t \in Requests |-> <<>>]
    /\ fragments = [t \in Requests |-> EmptyDict]
    /\ finished = [t \in Requests |-> FALSE]
    /\ raised = [t \in Requests |-> FALSE]
    /\ seen = [t \in Requests |-> {}]
    /\ malformed = [t \in Requests |-> FALSE]
    /\ junk = [t \in Requests |-> FALSE]
    /\ stale = [t \in Requests |-> FALSE]
    /\ connected = [t \in Requests |-> FALSE]
    /\ subscribed = [t \in Requests |-> FALSE]
    /\ outcome = [t \in Requests |-> "none"]
    /\ result = [t \in Requests |-> <<>>]
    /\ response = [t \in Requests |-> NoResponse]

FnOff ==
    /\ fn_b = <<>>
    /\ fn_n = 1
    /\ fn_out = <<>>
    /\ fn_pc = "off"

Init == SysInit(TRUE) /\ FnOff

ConcInit == SysInit(FALSE) /\ FnOff

\* fragments and finished are module-level: a call goes on with what the
\* call before it left
EnterCallKeep(t, ms) ==
    /\ UNCHANGED <<fragments, finished>>
    /\ stale' = [stale EXCEPT
                   ![t] = JStr(ReqIdStr(ms)) \in DOMAIN fragments[t]]
    /\ attempt' = [attempt EXCEPT ![t] = 0]
    /\ chunk' = [chunk EXCEPT ![t] = 0]
    /\ acked' = [acked EXCEPT ![t] = <<>>]

\* send_command_and_get_response is entered: fragments = {}, finished = Event()
EnterCall(t, ms) ==
    /\ stale' = [stale EXCEPT
                   ![t] = JStr(ReqIdStr(ms)) \in DOMAIN fragments[t]]
    /\ fragments' = [fragments EXCEPT ![t] = EmptyDict]
    /\ finished' = [finished EXCEPT ![t] = FALSE]
    /\ attempt' = [attempt EXCEPT ![t] = 0]
    /\ chunk' = [chunk EXCEPT ![t] = 0]
    /\ acked' = [acked EXCEPT ![t] = <<>>]

\* The call is over and its frame goes: the locals, and with them the
\* fragments dict and the event unless the peripheral stack still holds
\* notif_handler, whose closure owns both.
LeaveCall(t, stillSubscribed) ==
    /\ fragments' = [fragments EXCEPT
                       ![t] = IF stillSubscribed THEN @ ELSE EmptyDict]
    /\ finished' = [finished EXCEPT
                      ![t] = IF stillSubscribed THEN @ ELSE FALSE]
    /\ attempt' = [attempt EXCEPT ![t] = 0]
    /\ chunk' = [chunk EXCEPT ![t] = 0]
    /\ acked' = [acked EXCEPT ![t] = <<>>]
    /\ command_bytes' = [command_bytes EXCEPT ![t] = <<>>]
    /\ result' = [result EXCEPT ![t] = <<>>]
    /\ req_id' = [req_id EXCEPT ![t] = IF stillSubscribed THEN @ ELSE 0]
    /\ seen' = [seen EXCEPT ![t] = {}]
    /\ malformed' = [malformed EXCEPT ![t] = FALSE]
    /\ junk' = [junk EXCEPT ![t] = FALSE]
    /\ stale' = [stale EXCEPT ![t] = FALSE]

\* handle_request's answer to a call that returned resp_bytes: the status of
\* the Response Envelope {"status": N} when the bytes decode as one, and
\* otherwise (the except branch) 200 with the raw bytes
EnvHead == <<123,34,115,116,97,116,117,115,34,58,32>>      \* {"status":_

\* b is {"status": N}
HasStatus(b) ==
    /\ Len(b) > Len(EnvHead) + 1
    /\ SubSeq(b, 1, Len(EnvHead)) = EnvHead
    /\ b[Len(b)] = 125
    /\ \A i \in (Len(EnvHead) + 1)..(Len(b) - 1) : IsDigit(b[i])

\* the try block of handle_request gets through b
IsEnvelope(b) == b = ObjectBytes \/ HasStatus(b)

\* bytes that do not decode are answered with an error status
ResponseStatusStrict(resp_bytes) ==
    IF resp_bytes = ObjectBytes THEN 200
    ELSE IF HasStatus(resp_bytes)
    THEN DigitsValue(SubSeq(resp_bytes, Len(EnvHead) + 1,
                            Len(resp_bytes) - 1), 0)
    ELSE 502

\* int(msg.get("status", 200)), and the 200 of the except branch
ResponseStatus(resp_bytes) ==
    IF HasStatus(resp_bytes)
    THEN DigitsValue(SubSeq(resp_bytes, Len(EnvHead) + 1,
                            Len(resp_bytes) - 1), 0)
    ELSE 200

\* no except branch around the call: the status is read off the bytes
HttpStatusNoExcept(out, resp_bytes) == ResponseStatus(resp_bytes)

\* the status handle_request answers with: 504 when the call raised
HttpStatus(out, resp_bytes) ==
    IF out = "ok" THEN ResponseStatus(resp_bytes) ELSE 504

\* the body it answers with: that of the envelope, which the envelopes of
\* the model leave out (body_b64 defaults to ""), or the raw bytes
HttpBody(out, resp_bytes) ==
    IF out = "ok" /\ ~IsEnvelope(resp_bytes) THEN resp_bytes ELSE <<>>

\* text=f"Error communicating with device: {e}"
HttpText(out) ==
    IF out = "ok" THEN <<>> ELSE <<"Error communicating with device: ", out>>

\* handle_request returns its web.Response
Respond(t, out, resp_bytes) ==
    /\ response' = [response EXCEPT
                      ![t] = [status |-> HttpStatus(out, resp_bytes),
                              text |-> HttpText(out),
                              body |-> HttpBody(out, resp_bytes),
                              exc |-> ""]]
    /\ outcome' = [outcome EXCEPT ![t] = "none"]

\* when the environment may send a request that task t serves: the lowest
\* free task takes it, and serial clients wait for the previous answer
MayArrive(t) ==
    /\ \A u \in Requests : u < t => pc[u] # "idle"
    /\ serial => \A u \in Requests : pc[u] = "idle"

\* handle_request up to its first await after the body was read: the id is
\* taken from the clock, which has not moved since the previous request or
\* has, and a known device skips the scan
handle_request(t, ms, b) ==
    /\ pc[t] = "idle"
    /\ MayArrive(t)
    /\ ms \in {now, now + 1} /\ ms <= MaxClock
    /\ now' = ms
    /\ req_id' = [req_id EXCEPT ![t] = ms]
    /\ command_bytes' = [command_bytes EXCEPT ![t] = cmd_bytes(ms, b)]
    /\ IF connected_address = "none"
       THEN /\ pc' = [pc EXCEPT ![t] = "select"]
            /\ UNCHANGED <<fragments, finished, attempt, chunk, acked, stale>>
       ELSE /\ pc' = [pc EXCEPT ![t] = "connect"]
            /\ EnterCall(t, ms)
    /\ UNCHANGED <<variant, serial, budget, connected_address, CMD_CHAR,
                   RESP_CHAR, raised, seen, malformed, junk, connected,
                   subscribed, outcome, result, response, fnvars>>

\* connected_address = await select_device(): an address or None
select_device(t, found) ==
    /\ pc[t] = "select"
    /\ connected_address' = IF found THEN "addr" ELSE "none"
    /\ pc' = [pc EXCEPT ![t] = IF found THEN "detect" ELSE "detect_none"]
    /\ UNCHANGED <<variant, serial, budget, now, CMD_CHAR, RESP_CHAR, req_id,
                   command_bytes, attempt, chunk, acked, fragments, finished,
                   raised, seen, malformed, junk, stale, connected,
                   subscribed, outcome, result, response, fnvars>>

\* CMD_CHAR, RESP_CHAR = await detect_characteristics(address) returns
detect_characteristics(t) ==
    /\ pc[t] = "detect"
    /\ CMD_CHAR' = "uuid"
    /\ RESP_CHAR' = "uuid"
    /\ pc' = [pc EXCEPT ![t] = "connect"]
    /\ EnterCall(t, req_id[t])
    /\ UNCHANGED <<variant, serial, budget, now, connected_address, req_id,
                   command_bytes, raised, seen, malformed, junk, connected,
                   subscribed, outcome, result, response, fnvars>>

\* detect_characteristics raises (always so for the address None); nothing
\* in handle_request catches it
detect_raises(t) ==
    /\ pc[t] \in {"detect", "detect_none"}
    /\ pc' = [pc EXCEPT ![t] = "done"]
    /\ response' = [response EXCEPT ![t] = Unhandled(DetectError(pc[t]))]
    /\ command_bytes' = [command_bytes EXCEPT ![t] = <<>>]
    /\ req_id' = [req_id EXCEPT ![t] = 0]
    /\ UNCHANGED <<variant, serial, budget, now, connected_address, CMD_CHAR,
                   RESP_CHAR, attempt, chunk, acked, fragments, finished,
                   raised, seen, malformed, junk, stale, connected,
                   subscribed, outcome, result, fnvars>>

\* a connection attempt ends connected
connect_ok(t) ==
    /\ pc[t] = "connect"
    /\ connected' = [connected EXCEPT ![t] = TRUE]
    /\ attempt' = [attempt EXCEPT ![t] = 0]
    /\ pc' = [pc EXCEPT ![t] = "subscribe"]
    /\ UNCHANGED <<variant, serial, budget, now, connected_address, CMD_CHAR,
                   RESP_CHAR, req_id, command_bytes, chunk, acked, fragments,
                   finished, raised, seen, malformed, junk, stale, subscribed,
                   outcome, result, response, fnvars>>

\* range(retries + 1): one attempt too many
AttemptsOneMore(v) == IF v = "main" THEN RETRIES + 1 ELSE 1

\* the attempts safe_connect makes (main.py); macedition.py connects once
Attempts(v) == IF v = "main" THEN RETRIES ELSE 1

\* a connection attempt fails: safe_connect goes round its loop or raises
\* BleakError; `async with BleakClient` raises at once
connect_fails(t) ==
    /\ pc[t] = "connect"
    /\ IF attempt[t] + 1 < Attempts(variant)
       THEN /\ attempt' = [attempt EXCEPT ![t] = @ + 1]
            /\ UNCHANGED <<pc, outcome, fragments, finished, chunk, acked,
                           command_bytes, result, seen, malformed, junk,
                           stale, response, req_id>>
       ELSE /\ pc' = [pc EXCEPT ![t] = "done"]
            /\ LeaveCall(t, FALSE)
            /\ Respond(t, "BleakError", <<>>)
    /\ UNCHANGED <<variant, serial, budget, now, connected_address, CMD_CHAR,
                   RESP_CHAR, raised, connected, subscribed, fnvars>>

\* where the call goes when the try block is left: the finally block of
\* main.py starts with stop_notify, __aexit__ of macedition.py disconnects
Cleanup(v) == IF v = "main" THEN "unsub" ELSE "disc"

start_notify_ok(t) ==
    /\ pc[t] = "subscribe"
    /\ subscribed' = [subscribed EXCEPT ![t] = TRUE]
    /\ pc' = [pc EXCEPT ![t] = "write"]
    /\ UNCHANGED <<variant, serial, budget, now, connected_address, CMD_CHAR,
                   RESP_CHAR, req_id, command_bytes, attempt, chunk, acked,
                   fragments, finished, raised, seen, malformed, junk, stale,
                   connected, outcome, result, response, fnvars>>

start_notify_raises(t) ==
    /\ pc[t] = "subscribe"
    /\ outcome' = [outcome EXCEPT ![t] = "BleakError"]
    /\ pc' = [pc EXCEPT ![t] = Cleanup(variant)]
    /\ UNCHANGED <<variant, serial, budget, now, connected_address, CMD_CHAR,
                   RESP_CHAR, req_id, command_bytes, attempt, chunk, acked,
                   fragments, finished, raised, seen, malformed, junk, stale,
                   connected, subscribed, result, response, fnvars>>

\* write_gatt_char(cmd_char, chunk, acked, response=True) is acknowledged; after
\* the last chunk the call waits for `finished`
write_acked(t) ==
    /\ pc[t] = "write"
    /\ chunk' = [chunk EXCEPT ![t] = @ + 1]
    /\ acked' = [acked EXCEPT ![t] = @ \o ChunkAt(t)]
    /\ pc' = [pc EXCEPT ![t] = IF chunk[t] + 1 >= NumChunks(t)
                                THEN "wait" ELSE "write"]
    /\ UNCHANGED <<variant, serial, budget, now, connected_address, CMD_CHAR,
                   RESP_CHAR, req_id, command_bytes, attempt, fragments,
                   finished, raised, seen, malformed, junk, stale, connected,
                   subscribed, outcome, result, response, fnvars>>

write_raises(t) ==
    /\ pc[t] = "write"
    /\ outcome' = [outcome EXCEPT ![t] = "BleakError"]
    /\ pc' = [pc EXCEPT ![t] = Cleanup(variant)]
    /\ UNCHANGED <<variant, serial, budget, now, connected_address, CMD_CHAR,
                   RESP_CHAR, req_id, command_bytes, attempt, chunk, acked,
                   fragments, finished, raised, seen, malformed, junk, stale,
                   connected, subscribed, result, response, fnvars>>

\* wait_for(finished.wait(), timeout) returns: the response is assembled
wait_returns(t) ==
    /\ pc[t] = "wait"
    /\ finished[t]
    /\ result' = [result EXCEPT
                    ![t] = Assemble(fragments[t], CommandId(command_bytes[t]))]
    /\ outcome' = [outcome EXCEPT ![t] = "ok"]
    /\ pc' = [pc EXCEPT ![t] = Cleanup(variant)]
    /\ UNCHANGED <<variant, serial, budget, now, connected_address, CMD_CHAR,
                   RESP_CHAR, req_id, command_bytes, attempt, chunk, acked,
                   fragments, finished, raised, seen, malformed, junk, stale,
                   connected, subscribed, response, fnvars>>

\* REQUEST_TIMEOUT elapses with `finished` unset: TimeoutError
wait_times_out(t) ==
    /\ pc[t] = "wait"
    /\ ~finished[t]
    /\ outcome' = [outcome EXCEPT ![t] = "TimeoutError"]
    /\ pc' = [pc EXCEPT ![t] = Cleanup(variant)]
    /\ UNCHANGED <<variant, serial, budget, now, connected_address, CMD_CHAR,
                   RESP_CHAR, req_id, command_bytes, attempt, chunk, acked,
                   fragments, finished, raised, seen, malformed, junk, stale,
                   connected, subscribed, result, response, fnvars>>

\* finally: await client.stop_notify(resp_char) returns
stop_notify_ok(t) ==
    /\ pc[t] = "unsub"
    /\ subscribed' = [subscribed EXCEPT ![t] = FALSE]
    /\ pc' = [pc EXCEPT ![t] = "disc"]
    /\ UNCHANGED <<variant, serial, budget, now, connected_address, CMD_CHAR,
                   RESP_CHAR, req_id, command_bytes, attempt, chunk, acked,
                   fragments, finished, raised, seen, malformed, junk, stale,
                   connected, outcome, result, response, fnvars>>

\* finally: stop_notify raises; `except Exception: pass` ends the block, so
\* disconnect is not reached.  The stack may or may not have dropped the
\* callback before it raised.
stop_notify_raises(t, dropped) ==
    /\ pc[t] = "unsub"
    /\ pc' = [pc EXCEPT ![t] = "done"]
    /\ subscribed' = [subscribed EXCEPT ![t] = @ /\ ~dropped]
    /\ LeaveCall(t, subscribed[t] /\ ~dropped)
    /\ Respond(t, outcome[t], result[t])
    /\ UNCHANGED <<variant, serial, budget, now, connected_address, CMD_CHAR,
                   RESP_CHAR, raised, connected, fnvars>>

\* client.disconnect() (main.py: in the finally block, macedition.py: in
\* __aexit__) closes the link, and with it the subscription
disconnect(t) ==
    /\ pc[t] = "disc"
    /\ connected' = [connected EXCEPT ![t] = FALSE]
    /\ subscribed' = [subscribed EXCEPT ![t] = FALSE]
    /\ pc' = [pc EXCEPT ![t] = "done"]
    /\ LeaveCall(t, FALSE)
    /\ Respond(t, outcome[t], result[t])
    /\ UNCHANGED <<variant, serial, budget, now, connected_address, CMD_CHAR,
                   RESP_CHAR, raised, fnvars>>

\* The response has gone out and the task is over.  Nothing in the program
\* refers to its BleakClient any more: a connection or a handler it left
\* behind is followed up to here and no further.  What a handler left
\* behind has stored stays in its closure.
release(t) ==
    /\ pc[t] = "done"
    /\ pc' = [pc EXCEPT ![t] = "idle"]
    /\ response' = [response EXCEPT ![t] = NoResponse]
    /\ connected' = [connected EXCEPT ![t] = FALSE]
    /\ subscribed' = [subscribed EXCEPT ![t] = FALSE]
    /\ req_id' = [req_id EXCEPT ![t] = 0]
    /\ raised' = [raised EXCEPT ![t] = FALSE]
    /\ seen' = [seen EXCEPT ![t] = {}]
    /\ malformed' = [malformed EXCEPT ![t] = FALSE]
    /\ junk' = [junk EXCEPT ![t] = FALSE]
    /\ stale' = [stale EXCEPT ![t] = FALSE]
    /\ UNCHANGED <<variant, serial, budget, now, connected_address, CMD_CHAR,
                   RESP_CHAR, command_bytes, attempt, chunk, acked, fragments,
                   finished, outcome, result, fnvars>>

\* what a notification is, read off its bytes
Undecoded(data) == ~data.utf8 \/ ~data.json \/ ~data.obj

OwnFragment(t, data) ==
    /\ ~Undecoded(data)
    /\ data.id = JStr(ReqIdStr(req_id[t]))
    /\ data.seq.t = "int"
    /\ data.payload_b64.t = "str"
    /\ data.final.t = "bool"

\* the peripheral stack calls notif_handler(sender, data)
notif_handler(t, data) ==
    /\ subscribed[t]
    /\ data \in WireMessages(req_id[t])
    /\ budget > 0
    /\ budget' = budget - 1
    /\ seen' = [seen EXCEPT
                  ![t] = IF OwnFragment(t, data) THEN @ \cup {data} ELSE @]
    /\ malformed' = [malformed EXCEPT ![t] = @ \/ Undecoded(data)]
    /\ junk' = [junk EXCEPT
                  ![t] = @ \/ (~Undecoded(data) /\ ~OwnFragment(t, data))]
    /\ IF ParseError(data) = "" \/ Caught(ParseError(data))
       THEN /\ fragments' = [fragments EXCEPT
                               ![t] = HandlerFragments(@, data)]
            /\ finished' = [finished EXCEPT
                              ![t] = @ \/ HandlerSetsFinished(data)]
            /\ UNCHANGED raised
       ELSE /\ raised' = [raised EXCEPT ![t] = TRUE]
            /\ UNCHANGED <<fragments, finished>>
    /\ UNCHANGED <<variant, serial, now, connected_address, CMD_CHAR,
                   RESP_CHAR, pc, req_id, command_bytes, attempt, chunk,
                   acked, stale, connected, subscribed, outcome, result,
                   response, fnvars>>

Next ==
    \/ \E t \in Requests, ms \in 1..MaxClock, b \in Bodies :
           handle_request(t, ms, b)
    \/ \E t \in Requests, found \in BOOLEAN : select_device(t, found)
    \/ \E t \in Requests : detect_characteristics(t)
    \/ \E t \in Requests : detect_raises(t)
    \/ \E t \in Requests : connect_ok(t)
    \/ \E t \in Requests : connect_fails(t)
    \/ \E t \in Requests : start_notify_ok(t)
    \/ \E t \in Requests : start_notify_raises(t)
    \/ \E t \in Requests : write_acked(t)
    \/ \E t \in Requests : write_raises(t)
    \/ \E t \in Requests : wait_returns(t)
    \/ \E t \in Requests : wait_times_out(t)
    \/ \E t \in Requests : stop_notify_ok(t)
    \/ \E t \in Requests, dropped \in BOOLEAN : stop_notify_raises(t, dropped)
    \/ \E t \in Requests : disconnect(t)
    \/ \E t \in Requests : release(t)
    \/ \E t \in Requests, data \in Wire : notif_handler(t, data)

\* serial clients
Spec == Init /\ [][Next]_vars

\* concurrent clients
ConcSpec == ConcInit /\ [][Next]_vars

\* What the scheduling guarantees: a connection attempt ends within the 30 s
\* of BleakClient(address, timeout=30), and wait_for ends when the event is
\* set or REQUEST_TIMEOUT has elapsed.  Nothing bounds the other awaits.
\* Serial clients keep one task inside a call at a time, so the fairness of
\* the disjunction is the fairness of that task's step.
Timed ==
    \E t \in Requests :
        \/ connect_ok(t) \/ connect_fails(t)
        \/ wait_returns(t) \/ wait_times_out(t)

Fairness == WF_vars(Timed)

FairSpec == Spec /\ Fairness

----------------------------------------------------------------------------
(* chunk_bytes on its own: the arguments are drawn, then it runs *)

Body_a1 == <<123, 34, 97, 34, 58, 49, 125>>       \* {"a":1}

RECURSIVE BytesUpTo(_)
BytesUpTo(n) ==
    IF n = 0 THEN {<<>>}
    ELSE BytesUpTo(n - 1) \cup
         {Append(b, c) : b \in {x \in BytesUpTo(n - 1) : Len(x) = n - 1},
                         c \in {97, 98}}

Buffers == BytesUpTo(MaxBufLen) \cup {Body_a1}

ChunkInit ==
    /\ SysInit(TRUE)
    /\ fn_b \in Buffers
    /\ fn_n \in 1..MaxChunkSize
    /\ fn_out = <<>>
    /\ fn_pc = "ready"

ChunkRun ==
    /\ fn_pc = "ready"
    /\ fn_out' = chunk_bytes(fn_b, fn_n)
    /\ fn_pc' = "done"
    /\ UNCHANGED <<fn_b, fn_n, sysvars>>

ChunkNext == ChunkRun

ChunkSpec == ChunkInit /\ [][ChunkNext]_vars

----------------------------------------------------------------------------
(* Properties *)

OwnId(t) == JStr(ReqIdStr(req_id[t]))

SetMax(S) == CHOOSE x \in S : \A y \in S : y <= x

SeqsOf(S) == {m.seq.n : m \in S}

\* a set of fragments of one id: seq 0..max, each once, final on max only
Complete(S) ==
    /\ S # {}
    /\ Cardinality(S) = Cardinality(SeqsOf(S))
    /\ SeqsOf(S) = 0..SetMax(SeqsOf(S))
    /\ \A m \in S : (m.final.n = 1) <=> (m.seq.n = SetMax(SeqsOf(S)))

\* the bytes the peripheral split into the fragments of a complete set
Original(S) ==
    Concat([i \in 1..Cardinality(S) |->
               B64Decode((CHOOSE m \in S : m.seq.n = i - 1).payload_b64).b])

\* the call of request t ends in this step
Ends(t) == pc[t] \in CallPcs /\ pc'[t] = "done"

\* C1: when the fragments handed to notif_handler during a call are a
\* complete, gap-free set of the request's id, in whatever order they came,
\* a call that returns returns the original bytes.
C1_AnyOrderAssembles ==
    [][\A t \in Requests :
         (Ends(t) /\ outcome[t] = "ok" /\ ~junk[t] /\ Complete(seen[t]))
         => result[t] = Original(seen[t])]_vars

\* the stored seq values leave out an index of 0..max
HasGap(parts) ==
    /\ DOMAIN parts # {}
    /\ \E i \in 0..SetMax(DOMAIN parts) : i \notin DOMAIN parts

\* C2: a call that leaves its wait with completion signalled while a seq of
\* 0..max is missing for its id fails with an assembly error.
C2_GapIsAnError ==
    [][\A t \in Requests :
         (pc[t] = "wait" /\ pc'[t] # "wait" /\ finished[t]
            /\ HasGap(DictGet(fragments[t], OwnId(t), EmptyDict)))
         => outcome'[t] = "AssemblyError"]_vars

\* C3: while one call holds the connection, no other call has an open
\* connection, has written a chunk or holds a fragment.
C3_SingleFlight ==
    \A t, u \in Requests :
        (t # u /\ pc[t] \in CallPcs /\ connected[t] /\ pc[u] \in CallPcs)
        => (~connected[u] /\ chunk[u] = 0 /\ fragments[u] = EmptyDict)

\* C4: a wait that sees no final-flagged fragment ends, and ends with
\* TimeoutError; once the call has failed so, none of its fragments is
\* resident.
C4_TimeoutEvicts ==
    /\ [][\A t \in Requests :
            (pc[t] = "wait" /\ pc'[t] # "wait" /\ ~finished[t])
            => outcome'[t] = "TimeoutError"]_vars
    /\ \A t \in Requests :
            (pc[t] = "wait" /\ ~finished[t]) ~> (pc[t] # "wait" \/ finished[t])
    /\ [][\A t \in Requests :
            (Ends(t) /\ outcome[t] = "TimeoutError")
            => fragments'[t] = EmptyDict]_vars

\* C5: every call ends, whatever the peripheral does.
C5_CallEnds ==
    \A t \in Requests : (pc[t] \in CallPcs) ~> (pc[t] = "done")

\* C6: a call that has ended holds no connection.
C6_EndedIsDisconnected ==
    \A t \in Requests : pc[t] = "done" => ~connected[t]

\* C7: notif_handler, called on bytes that are not UTF-8, not JSON or not a
\* JSON object, raises nothing, stores nothing and leaves the completion
\* signal and the waiting call as they are.
C7_UndecodableIsDropped ==
    [][\A t \in Requests, data \in Wire :
         (Undecoded(data) /\ notif_handler(t, data))
         => /\ ~raised'[t]
            /\ fragments' = fragments
            /\ finished' = finished
            /\ pc' = pc]_vars

C7_Witness ==
    \E t \in Requests :
        /\ malformed[t] /\ ~junk[t] /\ seen[t] = {}
        /\ pc[t] = "wait" /\ ~finished[t] /\ fragments[t] = EmptyDict

\* a JSON object in which id, seq or final is missing, or seq is no integer
Defective(data) ==
    /\ ~Undecoded(data)
    /\ \/ data.id.t = "absent"
       \/ data.seq.t # "int"
       \/ data.final.t = "absent"

\* C8: notif_handler, called on a JSON object with a missing or malformed
\* fragment field, stores nothing and does not signal completion.
C8_DefectiveIsRejected ==
    [][\A t \in Requests, data \in Wire :
         (Defective(data) /\ notif_handler(t, data))
         => (fragments' = fragments /\ finished' = finished)]_vars

\* C9: the chunks of chunk_bytes(b, n) concatenate to b, all but the last
\* have n bytes, the last has 1..n, and an empty buffer has no chunk.
C9_ChunksPartition ==
    fn_pc = "done" =>
        /\ Concat(fn_out) = fn_b
        /\ \A i \in 1..(Len(fn_out) - 1) : Len(fn_out[i]) = fn_n
        /\ fn_out # <<>> =>
              /\ Len(fn_out[Len(fn_out)]) >= 1
              /\ Len(fn_out[Len(fn_out)]) <= fn_n
        /\ fn_b = <<>> => fn_out = <<>>

C9_Witness ==
    /\ fn_pc = "done"
    /\ Len(fn_out) >= 2
    /\ Len(fn_out[Len(fn_out)]) < fn_n

\* C10 as stated: the body {"a":1} in chunks of 4 gives two chunks of four
\* bytes each that concatenate to the body.
C10_TwoChunksOfFour ==
    (fn_pc = "done" /\ fn_b = Body_a1 /\ fn_n = 4) =>
        /\ Len(fn_out) = 2
        /\ \A i \in 1..Len(fn_out) : Len(fn_out[i]) = 4
        /\ Concat(fn_out) = fn_b

\* C10 amended: the body {"a":1} is seven bytes long; in chunks of 4 it gives
\* two chunks, of four and of three bytes, that concatenate to the body.
C10_FourThenThree ==
    (fn_pc = "done" /\ fn_b = Body_a1 /\ fn_n = 4) =>
        /\ fn_out = << <<123, 34, 97, 34>>, <<58, 49, 125>> >>
        /\ Concat(fn_out) = fn_b

C10_Witness == fn_pc = "done" /\ fn_b = Body_a1 /\ fn_n = 4

\* the answer of status 504 that carries the message of exception e
Error504(e) ==
    [status |-> 504, text |-> <<"Error communicating with device: ", e>>,
     body |-> <<>>, exc |-> ""]

\* C11: when the call fails with TimeoutError, or with the connection error
\* of a connect that has used up its attempts, handle_request raises nothing
\* and returns a response of status 504 whose text carries the error.
C11_FailureIs504 ==
    [][\A t \in Requests :
         /\ (Ends(t) /\ outcome[t] = "TimeoutError")
               => response'[t] = Error504("TimeoutError")
         /\ (pc[t] = "connect" /\ pc'[t] = "done")
               => response'[t] = Error504("BleakError")]_vars

C11_Witness ==
    \E t \in Requests :
        pc[t] = "done" /\ response[t] = Error504("TimeoutError")

\* C12: no failure lets an exception leave handle_request; whatever fails,
\* handle_request itself returns the response.
C12_NothingEscapes ==
    \A t \in Requests : response[t].exc = ""

\* C13: the Command Envelopes that await a response at the same time carry
\* pairwise distinct ids.
C13_DistinctIds ==
    \A t, u \in Requests :
        (t # u /\ pc[t] = "wait" /\ pc[u] = "wait")
        => CommandId(command_bytes[t]) # CommandId(command_bytes[u])

\* C14: the wait of the call for request id R is ended, other than by the
\* timeout, only by a fragment with final = true whose id is R.
C14_CompletionById ==
    [][\A t \in Requests :
         (pc[t] = "wait" /\ outcome'[t] = "ok")
         => \E m \in seen[t] : m.final = JBool(TRUE)]_vars

IsPrefix(a, b) == Len(a) <= Len(b) /\ SubSeq(b, 1, Len(a)) = a

\* C15: the chunks of a call are written in buffer order, each after the
\* one before it was acknowledged: the bytes acknowledged are always a prefix
\* of the command bytes and are all of them when the wait starts, and after a
\* write that failed nothing more is written.
C15_WritesInOrder ==
    /\ [](\A t \in Requests :
             pc[t] \in CallPcs => IsPrefix(acked[t], command_bytes[t]))
    /\ [][\A t \in Requests :
            /\ (pc[t] = "write" /\ pc'[t] = "wait")
                  => acked'[t] = command_bytes[t]
            /\ (pc[t] \in CallPcs /\ pc[t] # "write" /\ pc'[t] \in CallPcs)
                  => acked'[t] = acked[t]]_vars

C15_Witness ==
    \E t \in Requests :
        /\ pc[t] = "write" /\ chunk[t] = 1
        /\ Len(acked[t]) = BLE_CHUNK_SIZE
        /\ Len(command_bytes[t]) > BLE_CHUNK_SIZE

\* C16: a cycle goes connect, subscribe, chunk writes, wait, unsubscribe,
\* disconnect.  The handler is subscribed on an open connection before any
\* chunk is written; chunks are written only with the connection open and
\* the subscription active; the wait starts after the last chunk was
\* written; the subscription and the connection are not given up while
\* chunks are written or the call waits; and stop_notify comes before
\* disconnect where the code calls it (main.py).
C16_CycleOrder ==
    /\ [](\A t \in Requests :
             pc[t] = "wait" => /\ acked[t] = command_bytes[t]
                               /\ connected[t] /\ subscribed[t])
    /\ [][\A t \in Requests :
            /\ (~subscribed[t] /\ subscribed'[t])
                  => (connected[t] /\ acked[t] = <<>>)
            /\ (pc[t] \in CallPcs /\ pc'[t] \in CallPcs
                   /\ acked'[t] # acked[t])
                  => (connected[t] /\ subscribed[t])
            /\ ((subscribed[t] /\ ~subscribed'[t])
                   \/ (connected[t] /\ ~connected'[t]))
                  => pc[t] \notin {"connect", "subscribe", "write", "wait"}
            /\ (variant = "main" /\ pc[t] \in CallPcs
                   /\ connected[t] /\ ~connected'[t])
                  => ~subscribed[t]]_vars

C16_Witness ==
    \E t \in Requests :
        /\ variant = "main" /\ pc[t] = "disc" /\ outcome[t] = "ok"
        /\ chunk[t] = 2 /\ connected[t] /\ ~subscribed[t]

\* the notification that put payload b at seq i of rid is among those in S
StoredFrom(S, rid, i, b) ==
    \E m \in S : /\ m.id = rid
                  /\ m.seq.n = i
                  /\ B64Decode(m.payload_b64).b = b

\* C17: reassembly state belongs to one cycle.  A call starts with an empty
\* fragments dict and an unset event; whatever its dict holds was put there
\* by a notification handed to this call, and a completion it sees was
\* signalled by one, also when an earlier request carried the same id.
C17_StatePerCycle ==
    /\ [][\A t \in Requests :
            (pc[t] \notin CallPcs /\ pc'[t] \in CallPcs)
            => (fragments'[t] = EmptyDict /\ ~finished'[t])]_vars
    /\ [](\A t \in Requests :
             (pc[t] \in CallPcs /\ ~junk[t])
             => /\ \A rid \in DOMAIN fragments[t] :
                     \A i \in DOMAIN fragments[t][rid] :
                         StoredFrom(seen[t], rid, i, fragments[t][rid][i])
                /\ finished[t] => \E m \in seen[t] : m.final = JBool(TRUE))

\* a call has returned under an id under which an earlier call, whose
\* handler was left behind, had stored a fragment
C17_Witness ==
    \E t \in Requests :
        stale[t] /\ pc[t] \in CallPcs /\ outcome[t] = "ok"

\* C18: safe_connect makes at most `retries` attempts and returns on the
\* first that ends connected; when none does it raises, after exactly
\* `retries` attempts, and send_command_and_get_response then raises with no
\* handler subscribed, no chunk written and no connection open.
C18_BoundedConnect ==
    /\ [](\A t \in Requests : pc[t] = "connect" => attempt[t] < RETRIES)
    /\ [][\A t \in Requests :
            /\ (pc[t] = "connect" /\ connected'[t])
                  => pc'[t] = "subscribe"
            /\ (pc[t] = "connect" /\ pc'[t] \notin {"connect", "subscribe"})
                  => /\ variant = "main" => attempt[t] = RETRIES - 1
                     /\ pc'[t] = "done"
                     /\ response'[t].status = 504
                     /\ ~subscribed[t] /\ ~subscribed'[t]
                     /\ acked[t] = <<>> /\ chunk[t] = 0
                     /\ ~connected[t] /\ ~connected'[t]]_vars

\* the last attempt of safe_connect is under way
C18_Witness ==
    \E t \in Requests :
        variant = "main" /\ pc[t] = "connect" /\ attempt[t] = RETRIES - 1

\* C19: whenever a request is inside send_command_and_get_response, the
\* globals connected_address, CMD_CHAR and RESP_CHAR are all set.
C19_GlobalsSet ==
    \A t \in Requests :
        pc[t] \in CallPcs
        => /\ connected_address # "none"
           /\ CMD_CHAR # "none"
           /\ RESP_CHAR # "none"

\* C20: handle_request answers a call that returned with the status and the
\* body of the Response Envelope only when the assembled bytes are one (the
\* envelopes of the model are {"status": 404} and {}, whose status defaults
\* to 200, both with no body); for any other
\* bytes, the empty buffer among them, it answers 200 with the raw bytes as
\* the body.
C20_EnvelopeOrRaw ==
    [][\A t \in Requests :
         (Ends(t) /\ outcome[t] = "ok")
         => response'[t] =
               IF result[t] = EnvelopeBytes
               THEN [status |-> 404, text |-> <<>>, body |-> <<>>, exc |-> ""]
               ELSE IF result[t] = ObjectBytes
               THEN [status |-> 200, text |-> <<>>, body |-> <<>>, exc |-> ""]
               ELSE [status |-> 200, text |-> <<>>, body |-> result[t],
                     exc |-> ""]]_vars

\* a call that returned an empty buffer was answered 200 with an empty body
C20_Witness ==
    \E t \in Requests :
        /\ pc[t] = "done"
        /\ response[t] = [status |-> 200, text |-> <<>>, body |-> <<>>,
                           exc |-> ""]

====
